---- MODULE Spec2Model ----
(***************************************************************************)
(* Background resolution of the FarmSync weather module:                   *)
(*   src/src/config/weatherAssets.js       the asset catalog               *)
(*   src/src/services/weatherBackground.js the tiered resolver, its caches *)
(*                                                                         *)
(* JavaScript values are tagged tuples of strings: a string is             *)
(* <<"str", tok1, ..., tokn>> (its text cut into the tokens the code       *)
(* searches for with String.includes), null is <<"null">>, undefined is    *)
(* <<"undefined">>, a number is <<"num", digits>>, a function is           *)
(* <<"function", name>>, an object other than null <<"object", name>>.     *)
(*                                                                         *)
(* An async function runs atomically from one await to the next; every     *)
(* await (also of an already settled promise) is a point where other       *)
(* calls, cache clears and network completions may interleave.             *)
(***************************************************************************)
EXTENDS Naturals, Sequences, FiniteSets, TLC

\* ------------------------------------------------------------ bounds
\* getWeatherBackground calls started over a run.
MaxRuns == 2
\* The calls that are pending or whose result the caller still holds: two
\* at a time.
Slots == {1, 2}

\* ------------------------------------------------------- JS values
Null == <<"null">>
Undefined == <<"undefined">>
Thrown == <<"throw">>
Str(toks) == <<"str">> \o toks
Num42 == <<"num", "42">>
Fn(name) == <<"function", name>>
Obj(name) == <<"object", name>>

IsString(v) == v[1] = "str"

\* A variant that tests `weatherKey == null` in place of `!weatherKey`.
IsEmptyKey_Nullish(weatherKey) == weatherKey \in {Null, Undefined}

\* !weatherKey
IsEmptyKey(weatherKey) ==
  ~(\/ IsString(weatherKey) /\ Len(weatherKey) > 1
    \/ weatherKey[1] \in {"num", "function", "object"})

\* ToBoolean: null, undefined and "" are falsy; a non-empty string, a
\* non-zero number, a function and an object are truthy.
Truthy(v) == \/ IsString(v) /\ Len(v) > 1
             \/ v[1] \in {"num", "function", "object"}

\* String.prototype.includes, on the tokens of a string.
Includes(v, tok) == \E n \in 2..Len(v) : v[n] = tok

\* a || b
OrElse(a, b) == IF Truthy(a) THEN a ELSE b

\* ------------------------------------------------------- the catalog
ASSETS_BASE_PATH == "/assets/weather/"

CatalogFile == [thunder |-> "thunder", rain |-> "rain", wind |-> "wind",
                sunny |-> "sunny", cloud |-> "cloudy", neutral |-> "neutral",
                snow |-> "snow", fog |-> "fog"]
               @@ ("heavy-rain" :> "heavy-rain")

CURATED_ASSETS ==
  [k \in DOMAIN CatalogFile |->
     [kind  |-> "object",
      str   |-> Undefined,
      gif   |-> Str(<<ASSETS_BASE_PATH, CatalogFile[k], ".gif">>),
      video |-> Str(<<ASSETS_BASE_PATH, CatalogFile[k], ".mp4">>),
      image |-> Str(<<ASSETS_BASE_PATH, CatalogFile[k], ".jpg">>)]]

Unsplash(photo) ==
  Str(<<"https://images.unsplash.com/", photo, "?w=1920&q=80&auto=format">>)

STATIC_FALLBACK_IMAGES ==
  [thunder |-> Unsplash("photo-1506905925346-21bda4d32df4"),
   rain    |-> Unsplash("photo-1527482797697-8795b05a13fe"),
   wind    |-> Unsplash("photo-1504608524841-42fe6f032b4b"),
   sunny   |-> Unsplash("photo-1506905925346-21bda4d32df4"),
   cloud   |-> Unsplash("photo-1501594907352-04cda38ebc29"),
   neutral |-> Unsplash("photo-1506905925346-21bda4d32df4"),
   snow    |-> Unsplash("photo-1482517967863-00e15c9b44be"),
   fog     |-> Unsplash("photo-1501594907352-04cda38ebc29")]
  @@ ("heavy-rain" :> Unsplash("photo-1433863448220-78aaa064ff47"))

\* table[weatherKey] for a table keyed by the category names: the entry, or
\* nothing for a key the table does not hold.
HasKey(table, weatherKey) ==
  /\ IsString(weatherKey)
  /\ Len(weatherKey) = 2
  /\ weatherKey[2] \in DOMAIN table

\* A variant of the selection that ignores preferVideo.
getCuratedAssetOf_GifFirst(asset, preferVideo) ==
  IF asset.kind = "string" THEN asset.str
  ELSE IF asset.kind = "object" THEN
         IF Truthy(asset.gif) THEN asset.gif
         ELSE IF Truthy(asset.video) THEN asset.video
         ELSE IF Truthy(asset.image) THEN asset.image
         ELSE Null
  ELSE Null

\* The selection order of getCuratedAsset on one catalog entry.
getCuratedAssetOf(asset, preferVideo) ==
  IF asset.kind = "string" THEN asset.str
  ELSE IF asset.kind = "object" THEN
         IF preferVideo /\ Truthy(asset.video) THEN asset.video
         ELSE IF Truthy(asset.gif) THEN asset.gif
         ELSE IF Truthy(asset.video) THEN asset.video
         ELSE IF Truthy(asset.image) THEN asset.image
         ELSE Null
  ELSE Null

\* An inherited property is a function (neither a string nor an object) or
\* Object.prototype (an object without gif, video or image): null for both,
\* as for a missing entry.
getCuratedAsset(weatherKey, preferVideo) ==
  IF ~HasKey(CURATED_ASSETS, weatherKey) THEN Null
  ELSE getCuratedAssetOf(CURATED_ASSETS[weatherKey[2]], preferVideo)

\* Property names every object literal inherits from Object.prototype.
InheritedKeys == {"toString", "constructor", "__proto__"}

\* table[weatherKey] on an object literal: its own entry, else what
\* Object.prototype holds under that name, else undefined.
Lookup(table, weatherKey) ==
  IF HasKey(table, weatherKey) THEN table[weatherKey[2]]
  ELSE IF IsString(weatherKey) /\ Len(weatherKey) = 2
          /\ weatherKey[2] \in InheritedKeys
    THEN IF weatherKey[2] = "__proto__" THEN Obj("Object.prototype")
         ELSE Fn(weatherKey[2])
  ELSE Undefined

getStaticFallback(weatherKey) ==
  OrElse(Lookup(STATIC_FALLBACK_IMAGES, weatherKey),
         STATIC_FALLBACK_IMAGES.neutral)


\* ------------------------------------------------- the environment
\* What import.meta.env.VITE_GIPHY_API_KEY may hold for a process run.
EnvKeys == {Undefined, Str(<<"env-giphy-key">>)}

\* Arguments the callers pass: an empty or absent category, one with a catalog
\* entry, one without.
EmptyKeys == {Str(<<>>), Null, Undefined}
WeatherKeys == {Str(<<"rain">>), Str(<<"hail">>)}
\* The giphyApiKey argument: none or a key of the caller's when the process
\* configuration holds none, and none (the key is left to the configuration)
\* when it holds one.
ApiKeys(env) == IF Truthy(env) THEN {Null} ELSE {Null, Str(<<"giphy-key">>)}

\* Outcomes of fetch(url, {method: 'HEAD'}): a response that is ok, one that
\* is not, a rejected promise.
HeadOutcomes == {"ok", "notok", "throw"}

\* Outcomes of fetch(searchUrl): a rejected promise, a response with
\* response.ok false or true.
SearchOutcomes == {"neterr", "notok", "ok"}

GiphyGif == Str(<<"https://media.giphy.com/media/", "abc", "/giphy", ".gif">>)
GiphyMp4 == Str(<<"https://media.giphy.com/media/", "abc", "/giphy", ".mp4">>)

\* A parsed response body {data: [{images: {original: {url}, original_mp4:
\* {mp4}}}]}, field by field: whether data is there and how long it is, and
\* for its first item which of the nested objects exist and what the two
\* location fields hold.
Body(data, len, images, original, url, original_mp4, mp4) ==
  [data |-> data, len |-> len, images |-> images,
   original |-> original, url |-> url,
   original_mp4 |-> original_mp4, mp4 |-> mp4]

Bodies ==
  { Body(FALSE, 0, FALSE, FALSE, Undefined, FALSE, Undefined),
    Body(TRUE,  0, FALSE, FALSE, Undefined, FALSE, Undefined),
    Body(TRUE,  1, FALSE, FALSE, Undefined, FALSE, Undefined),
    Body(TRUE, 1, TRUE, FALSE, Undefined, FALSE, Undefined),
    Body(TRUE,  1, TRUE,  TRUE,  Undefined, FALSE, Undefined),
    Body(TRUE,  1, TRUE,  TRUE,  GiphyGif,  FALSE, Undefined),
    Body(TRUE,  1, TRUE,  TRUE,  GiphyGif,  TRUE,  GiphyMp4),
    Body(TRUE,  1, TRUE,  FALSE, Undefined, TRUE,  GiphyMp4),
    Body(TRUE,  1, TRUE,  TRUE,  Num42,     FALSE, Undefined) }

\* ------------------------------------------------------------ state
VARIABLES
  apiFallbackCache,        \* Map: weatherKey -> media URL
  assetAvailabilityCache,  \* Map: asset URL -> boolean
  envKey,                  \* import.meta.env.VITE_GIPHY_API_KEY
  calls,                   \* the pending and settled getWeatherBackground calls
  runs,                    \* getWeatherBackground calls started so far
  conflicts,               \* cache keys written with two different values
                           \* since the caches were last cleared
  adapter,                 \* the WeatherBackground component: props and state
  probe                    \* a direct call of a catalog function: its
                           \* arguments and what it returned

vars == <<apiFallbackCache, assetAvailabilityCache, envKey, calls, runs,
          conflicts, adapter, probe>>

Descriptor(url, type, format) == [url |-> url, type |-> type, format |-> format]
NoResult == Descriptor(Undefined, "none", "none")
\* The promise of getWeatherBackground rejected with a TypeError.
Rejected == Descriptor(Undefined, "TypeError", "none")

\* A call: its arguments, where it stands (pc), its locals, what it returned,
\* and what it did: the HEAD and search requests it issued, how its Tier 1
\* (tier1) and its Tier 2 (got) ended, the location its search response
\* carried, whether the caches were cleared since it started (while it was
\* pending, or only after it had returned), and the calls that had returned
\* when it started (prior).
IdleCall ==
  [pc |-> "idle", weatherKey |-> Undefined, giphyApiKey |-> Undefined,
   preferVideo |-> FALSE,
   stage |-> 0, probeUrl |-> Undefined, isAvailable |-> FALSE,
   giphyUrl |-> Undefined, result |-> NoResult,
   heads |-> 0, searches |-> 0, tier1 |-> "none", got |-> "none",
   location |-> Undefined, cleared |-> "no", prior |-> {}]

\* ------------------------------------------- checkAssetAvailability
\* Variants of the look-up: one that never hits, one that only trusts a
\* stored "reachable".
ProbeCacheHit_Never(cache, url) == FALSE

ProbeCacheHit_OnlyReachable(cache, url) == url \in DOMAIN cache /\ cache[url]

\* The cache look-up that opens checkAssetAvailability.
ProbeCacheHit(cache, url) == url \in DOMAIN cache

\* The verdict of a completed HEAD request.
ProbeVerdict(outcome) == outcome = "ok"

\* map.set(key, value)
MapSet(map, key, value) ==
  [k \in DOMAIN map \cup {key} |-> IF k = key THEN value ELSE map[k]]

\* checkAssetAvailability(url) up to its first await, called by call c for
\* the candidate of the given stage (1: the preferred one, 2: the still).
\* On a hit the promise is settled with the cached verdict; on a miss the
\* HEAD request is issued.
EnterProbe(c, url, stage) ==
  LET c1 == [c EXCEPT !.stage = stage, !.probeUrl = url]
  IN IF ProbeCacheHit(assetAvailabilityCache, url)
       THEN [c1 EXCEPT !.pc = "avail",
                       !.isAvailable = assetAvailabilityCache[url]]
       ELSE [c1 EXCEPT !.pc = "head", !.heads = @ + 1]

\* ------------------------------------------------ fetchGiphyFallback
\* A variant of the look-up that never hits.
ApiCacheHit_Never(cache, weatherKey) == FALSE

\* The cache look-up that opens fetchGiphyFallback.
ApiCacheHit(cache, weatherKey) == weatherKey \in DOMAIN cache

\* data.data && data.data.length > 0
HasItems(body) == body.data /\ body.len > 0

\* data.data[0].images.original.url: a TypeError when images or original is
\* missing, else what the url field holds (undefined when it is missing).
OriginalUrl(body) ==
  IF body.images /\ body.original THEN body.url ELSE Thrown

\* The mediaUrl the code takes from the first item.
ExtractMediaUrl(body, preferVideo) ==
  IF preferVideo /\ body.images
    THEN LET mp4 == IF body.original_mp4 THEN body.mp4 ELSE Undefined
             url == IF body.original THEN body.url ELSE Undefined
         IN IF Truthy(mp4) THEN mp4
            ELSE IF Truthy(url) THEN url
            ELSE OriginalUrl(body)
    ELSE OriginalUrl(body)

\* What a search response carries, as the service sees it: the media
\* location of its first item for the format asked for (the embedded video
\* location for a video search when there is one, else the general one), and
\* its kind: no item, a first item without that location, one whose location
\* is no string, one with a location.
Location(body, preferVideo) ==
  LET mp4 == IF body.images /\ body.original_mp4 THEN body.mp4 ELSE Undefined
      url == IF body.images /\ body.original THEN body.url ELSE Undefined
  IN IF ~HasItems(body) THEN Undefined
     ELSE IF preferVideo /\ mp4 # Undefined THEN mp4
     ELSE url

Outcome(body, preferVideo) ==
  LET location == Location(body, preferVideo)
  IN IF ~HasItems(body) THEN "empty"
     ELSE IF location = Undefined THEN "malformed"
     ELSE IF ~IsString(location) THEN "nonstring"
     ELSE "item"

\* A variant that caches nothing.
CachesResult_Never(body, preferVideo) == FALSE

\* Whether fetchGiphyFallback caches what it took from the body.
CachesResult(body, preferVideo) ==
  HasItems(body) /\ ExtractMediaUrl(body, preferVideo) # Thrown

\* ------------------------------------------------ getWeatherBackground
\* A variant that takes the fallback of neutral for every category.
StaticResult_Neutral(weatherKey) ==
  Descriptor(STATIC_FALLBACK_IMAGES.neutral, "static", "image")

StaticResult(weatherKey) ==
  Descriptor(getStaticFallback(weatherKey), "static", "image")

\* What the call returns for an empty key.
EmptyKeyResult == StaticResult(Str(<<"neutral">>))

\* The format of a curated asset, read off its URL.
CuratedFormat(url) ==
  IF Includes(url, ".gif") THEN "gif"
  ELSE IF Includes(url, ".mp4") \/ Includes(url, ".webm") THEN "video"
  ELSE "image"

\* What Tier 1 returns for a reachable curated asset.
CuratedResult(curatedAsset) ==
  Descriptor(curatedAsset, "curated", CuratedFormat(curatedAsset))

\* A variant that goes by the text of the url alone.
ApiFormat_BySignature(url, preferVideo) ==
  IF Includes(url, ".mp4") \/ Includes(url, "/mp4") THEN "video" ELSE "gif"

\* The format of a Giphy result.
ApiFormat(url, preferVideo) ==
  IF preferVideo /\ (Includes(url, ".mp4") \/ Includes(url, "/mp4"))
    THEN "video" ELSE "gif"

\* typeof v
TypeOf(v) ==
  CASE v[1] = "str" -> "string"
    [] v[1] = "num" -> "number"
    [] v[1] = "function" -> "function"
    [] v[1] \in {"null", "object"} -> "object"
    [] OTHER -> "undefined"

\* v.image for a value that getCuratedAsset returns: a string has no such
\* property.
ImageOf(v) == Undefined

\* A variant with a built-in key of last resort.
EffectiveKey_BuiltIn(giphyApiKey, env) ==
  OrElse(OrElse(giphyApiKey, env), Str(<<"built-in-key">>))

\* giphyApiKey || import.meta.env.VITE_GIPHY_API_KEY
EffectiveKey(giphyApiKey, env) == OrElse(giphyApiKey, env)

\* The call returns (its promise settles): its frame is gone.
Return(c, d) ==
  [c EXCEPT !.pc = "done", !.result = d,
            !.stage = 0, !.probeUrl = Undefined, !.isAvailable = FALSE,
            !.giphyUrl = Undefined]

\* A variant whose cache look-up also asks that the cached location be of the
\* format the call prefers.
EnterTier2_PerFormat(c) ==
  IF Truthy(EffectiveKey(c.giphyApiKey, envKey))
    THEN IF /\ ApiCacheHit(apiFallbackCache, c.weatherKey)
            /\ c.preferVideo = Includes(apiFallbackCache[c.weatherKey], ".mp4")
           THEN [c EXCEPT !.pc = "giphy",
                          !.giphyUrl = apiFallbackCache[c.weatherKey],
                          !.got = "hit"]
           ELSE [c EXCEPT !.pc = "search", !.searches = @ + 1,
                          !.got = "pending"]
    ELSE Return([c EXCEPT !.got = "nokey"], StaticResult(c.weatherKey))

\* Tier 2 and 3 up to the next await: without a key the static fallback;
\* with one, fetchGiphyFallback up to its first await (a cache hit settles
\* its promise, a miss issues the search request).
EnterTier2(c) ==
  IF Truthy(EffectiveKey(c.giphyApiKey, envKey))
    THEN IF ApiCacheHit(apiFallbackCache, c.weatherKey)
           THEN [c EXCEPT !.pc = "giphy",
                          !.giphyUrl = apiFallbackCache[c.weatherKey],
                          !.got = "hit"]
           ELSE [c EXCEPT !.pc = "search", !.searches = @ + 1,
                          !.got = "pending"]
    ELSE Return([c EXCEPT !.got = "nokey"], StaticResult(c.weatherKey))

\* A variant that goes on to Tier 2 whatever the probe found.
AfterProbe_AlwaysTier2(c) ==
  EnterTier2([c EXCEPT !.tier1 = IF c.isAvailable THEN "reachable"
                                  ELSE "unreachable"])

\* The code after `await checkAssetAvailability(...)`.
AfterProbe(c) ==
  IF c.stage = 1
    THEN LET curatedAsset == getCuratedAsset(c.weatherKey, c.preferVideo)
             curatedAssetObj == getCuratedAsset(c.weatherKey, FALSE)
             c1 == [c EXCEPT !.tier1 = IF c.isAvailable THEN "reachable"
                                       ELSE "unreachable"]
         IN IF c.isAvailable
              THEN Return(c1, CuratedResult(curatedAsset))
            ELSE IF TypeOf(curatedAssetObj) = "object"
              THEN IF curatedAssetObj = Null
                     THEN Return(c1, Rejected)
                   ELSE IF Truthy(ImageOf(curatedAssetObj))
                     THEN EnterProbe(c1, ImageOf(curatedAssetObj), 2)
                   ELSE EnterTier2(c1)
            ELSE EnterTier2(c1)
    ELSE IF c.isAvailable
           THEN Return([c EXCEPT !.tier1 = "reachable"],
                       Descriptor(c.probeUrl, "curated", "image"))
         ELSE EnterTier2(c)

\* A variant that rejects when fetchGiphyFallback yields nothing.
AfterGiphy_RejectsOnNothing(c) ==
  IF Truthy(c.giphyUrl)
    THEN IF c.preferVideo /\ ~IsString(c.giphyUrl)
           THEN Return(c, Rejected)
         ELSE Return(c, Descriptor(c.giphyUrl, "api",
                                   ApiFormat(c.giphyUrl, c.preferVideo)))
    ELSE Return(c, Rejected)

\* A variant that repeats a failed search once.
AfterGiphy_RetriesOnce(c) ==
  IF Truthy(c.giphyUrl)
    THEN IF c.preferVideo /\ ~IsString(c.giphyUrl)
           THEN Return(c, Rejected)
         ELSE Return(c, Descriptor(c.giphyUrl, "api",
                                   ApiFormat(c.giphyUrl, c.preferVideo)))
    ELSE IF c.searches = 1 /\ c.got \in {"neterr", "notok"}
      THEN [c EXCEPT !.pc = "search", !.searches = 2, !.got = "pending"]
    ELSE Return(c, StaticResult(c.weatherKey))

\* The code after `await fetchGiphyFallback(...)`.
AfterGiphy(c) ==
  IF Truthy(c.giphyUrl)
    THEN IF c.preferVideo /\ ~IsString(c.giphyUrl)
           THEN Return(c, Rejected)
         ELSE Return(c, Descriptor(c.giphyUrl, "api",
                                   ApiFormat(c.giphyUrl, c.preferVideo)))
    ELSE Return(c, StaticResult(c.weatherKey))

\* ------------------------------------------------------------ actions
\* No direct call of a catalog function.
NoProbe ==
  [fn |-> "none", asset |-> Undefined, weatherKey |-> Undefined,
   preferVideo |-> FALSE, out |-> Undefined, result |-> NoResult]

\* The WeatherBackground component before it is mounted, with the initial
\* values of its state: its props, its four state variables, the load state
\* of the media element it renders (none, loading, loaded, failed), whether a
\* render or an effect threw, the slot of the getWeatherBackground call its
\* latest effect made (0: none) and whether the resolution for its current
\* props has settled.
Unmounted ==
  [mounted |-> FALSE, weatherKey |-> Undefined, giphyApiKey |-> Null,
   preferVideo |-> FALSE,
   backgroundData |-> NoResult, isLoading |-> TRUE, error |-> FALSE,
   useStaticFallback |-> FALSE,
   media |-> "none", crashed |-> FALSE, slot |-> 0, settled |-> FALSE]

EmptyCache == [k \in {} |-> Undefined]

\* The keys written with a value other than the one they hold.
Conflicting(map, key, value) ==
  IF key \in DOMAIN map /\ map[key] # value THEN {key} ELSE {}

Init ==
  /\ apiFallbackCache = EmptyCache
  /\ assetAvailabilityCache = EmptyCache
  /\ envKey \in EnvKeys
  /\ calls = [i \in Slots |-> IdleCall]
  /\ runs = 0
  /\ conflicts = {}
  /\ adapter = Unmounted
  /\ probe = NoProbe

\* getWeatherBackground(weatherKey, giphyApiKey, preferVideo) up to its
\* first await: with an empty key it returns at once.
Started(weatherKey, giphyApiKey, preferVideo) ==
  LET c == [IdleCall EXCEPT !.weatherKey = weatherKey,
                            !.giphyApiKey = giphyApiKey,
                            !.preferVideo = preferVideo,
                            !.prior = {j \in Slots : calls[j].pc = "done"}]
      curatedAsset == getCuratedAsset(weatherKey, preferVideo)
  IN IF IsEmptyKey(weatherKey) THEN Return(c, EmptyKeyResult)
     ELSE IF Truthy(curatedAsset) THEN EnterProbe(c, curatedAsset, 1)
     ELSE EnterTier2([c EXCEPT !.tier1 = "absent"])

\* Slot i takes the next call.
Free(i) ==
  /\ calls[i].pc = "idle"
  /\ \A j \in Slots : j < i => calls[j].pc # "idle"
  /\ runs < MaxRuns

Resolve(i, weatherKey, giphyApiKey, preferVideo) ==
  /\ Free(i)
  /\ calls' = [calls EXCEPT ![i] =
                 Started(weatherKey, giphyApiKey, preferVideo)]
  /\ runs' = runs + 1
  /\ UNCHANGED <<apiFallbackCache, assetAvailabilityCache, envKey, conflicts,
                 adapter, probe>>

\* The HEAD request of call i completes: checkAssetAvailability stores the
\* verdict and settles.
HeadDone(i, outcome) ==
  /\ calls[i].pc = "head"
  /\ LET verdict == ProbeVerdict(outcome)
         url == calls[i].probeUrl
     IN /\ assetAvailabilityCache' = MapSet(assetAvailabilityCache, url, verdict)
        /\ conflicts' = conflicts \cup
                          Conflicting(assetAvailabilityCache, url, verdict)
        /\ calls' = [calls EXCEPT ![i].pc = "avail",
                                  ![i].isAvailable = verdict]
  /\ UNCHANGED <<apiFallbackCache, envKey, runs,
                 adapter, probe>>

\* Call i resumes after `await checkAssetAvailability(...)`.
ProbeResume(i) ==
  /\ calls[i].pc = "avail"
  /\ calls' = [calls EXCEPT ![i] = AfterProbe(calls[i])]
  /\ UNCHANGED <<apiFallbackCache, assetAvailabilityCache, envKey, runs,
                 conflicts,
                 adapter, probe>>

\* A variant that also caches the null of a failed search.
SearchDone_MemoizesFailure(i, outcome) ==
  /\ calls[i].pc = "search"
  /\ calls' = [calls EXCEPT ![i] =
                 IF outcome = "ok"
                   THEN [@ EXCEPT !.pc = "json"]
                   ELSE [@ EXCEPT !.pc = "giphy", !.giphyUrl = Null,
                                  !.got = outcome]]
  /\ apiFallbackCache' =
       IF outcome = "ok" THEN apiFallbackCache
       ELSE MapSet(apiFallbackCache, calls[i].weatherKey, Null)
  /\ UNCHANGED <<assetAvailabilityCache, envKey, runs, conflicts,
                 adapter, probe>>

\* The search request of call i completes: rejected or not ok, and
\* fetchGiphyFallback returns null; ok, and it awaits response.json().
SearchDone(i, outcome) ==
  /\ calls[i].pc = "search"
  /\ calls' = [calls EXCEPT ![i] =
                 IF outcome = "ok"
                   THEN [@ EXCEPT !.pc = "json"]
                   ELSE [@ EXCEPT !.pc = "giphy", !.giphyUrl = Null,
                                  !.got = outcome]]
  /\ UNCHANGED <<apiFallbackCache, assetAvailabilityCache, envKey, runs,
                 conflicts,
                 adapter, probe>>

\* response.json() of call i rejects: caught, null.
JsonRejected(i) ==
  /\ calls[i].pc = "json"
  /\ calls' = [calls EXCEPT ![i].pc = "giphy", ![i].giphyUrl = Null,
                            ![i].got = "badjson"]
  /\ UNCHANGED <<apiFallbackCache, assetAvailabilityCache, envKey, runs,
                 conflicts,
                 adapter, probe>>

\* response.json() of call i yields body: the media URL of the first item is
\* cached and returned; nothing is cached for an empty list or when reading
\* the item throws.
JsonDone(i, body) ==
  /\ calls[i].pc = "json"
  /\ LET mediaUrl == ExtractMediaUrl(body, calls[i].preferVideo)
         key == calls[i].weatherKey
     IN IF CachesResult(body, calls[i].preferVideo)
          THEN /\ apiFallbackCache' = MapSet(apiFallbackCache, key, mediaUrl)
               /\ conflicts' = conflicts \cup
                                 Conflicting(apiFallbackCache, key, mediaUrl)
               /\ calls' = [calls EXCEPT ![i].pc = "giphy",
                                         ![i].giphyUrl = mediaUrl,
                                         ![i].got = Outcome(body, calls[i].preferVideo),
                                         ![i].location =
                                           Location(body, calls[i].preferVideo)]
          ELSE /\ UNCHANGED <<apiFallbackCache, conflicts>>
               /\ calls' = [calls EXCEPT ![i].pc = "giphy",
                                         ![i].giphyUrl = Null,
                                         ![i].got = Outcome(body, calls[i].preferVideo),
                                         ![i].location =
                                           Location(body, calls[i].preferVideo)]
  /\ UNCHANGED <<assetAvailabilityCache, envKey, runs,
                 adapter, probe>>

\* Call i resumes after `await fetchGiphyFallback(...)`.
GiphyResume(i) ==
  /\ calls[i].pc = "giphy"
  /\ calls' = [calls EXCEPT ![i] = AfterGiphy(calls[i])]
  /\ UNCHANGED <<apiFallbackCache, assetAvailabilityCache, envKey, runs,
                 conflicts,
                 adapter, probe>>

\* The caller drops the settled promise of call i, to make another call.
Release(i) ==
  /\ calls[i].pc = "done"
  /\ runs < MaxRuns
  /\ calls' = [j \in Slots |->
                 IF j = i THEN IdleCall
                 ELSE [calls[j] EXCEPT !.prior = @ \ {i}]]
  /\ UNCHANGED <<apiFallbackCache, assetAvailabilityCache, envKey, runs,
                 conflicts,
                 adapter, probe>>

\* A variant that clears the external-lookup cache only.
clearBackgroundCache_ApiOnly ==
  /\ apiFallbackCache' = EmptyCache
  /\ assetAvailabilityCache' = assetAvailabilityCache
  /\ conflicts' = {}
  /\ calls' = [j \in Slots |->
                 IF calls[j].pc = "idle" \/ calls[j].cleared = "pending"
                   THEN calls[j]
                 ELSE [calls[j] EXCEPT !.cleared =
                         IF calls[j].pc = "done" THEN "after" ELSE "pending"]]
  /\ UNCHANGED <<envKey, runs,
                 adapter, probe>>

\* A variant that clears the probe cache only.
clearBackgroundCache_ProbeOnly ==
  /\ apiFallbackCache' = apiFallbackCache
  /\ assetAvailabilityCache' = EmptyCache
  /\ conflicts' = {}
  /\ calls' = [j \in Slots |->
                 IF calls[j].pc = "idle" \/ calls[j].cleared = "pending"
                   THEN calls[j]
                 ELSE [calls[j] EXCEPT !.cleared =
                         IF calls[j].pc = "done" THEN "after" ELSE "pending"]]
  /\ UNCHANGED <<envKey, runs,
                 adapter, probe>>

clearBackgroundCache ==
  /\ apiFallbackCache' = EmptyCache
  /\ assetAvailabilityCache' = EmptyCache
  /\ conflicts' = {}
  /\ calls' = [j \in Slots |->
                 IF calls[j].pc = "idle" \/ calls[j].cleared = "pending"
                   THEN calls[j]
                 ELSE [calls[j] EXCEPT !.cleared =
                         IF calls[j].pc = "done" THEN "after" ELSE "pending"]]
  /\ UNCHANGED <<envKey, runs,
                 adapter, probe>>

Next ==
  \/ \E i \in Slots, k \in EmptyKeys \cup WeatherKeys, a \in ApiKeys(envKey),
          v \in BOOLEAN :
       Resolve(i, k, a, v)
  \/ \E i \in Slots, o \in HeadOutcomes : HeadDone(i, o)
  \/ \E i \in Slots : ProbeResume(i)
  \/ \E i \in Slots, o \in SearchOutcomes : SearchDone(i, o)
  \/ \E i \in Slots : JsonRejected(i)
  \/ \E i \in Slots, b \in Bodies : JsonDone(i, b)
  \/ \E i \in Slots : GiphyResume(i)
  \/ \E i \in Slots : Release(i)
  \/ clearBackgroundCache

Spec == Init /\ [][Next]_vars

\* The steps of call i that follow a network completion or a settled await.
CallStep(i) ==
  \/ \E o \in HeadOutcomes : HeadDone(i, o)
  \/ ProbeResume(i)
  \/ \E o \in SearchOutcomes : SearchDone(i, o)
  \/ JsonRejected(i)
  \/ \E b \in Bodies : JsonDone(i, b)
  \/ GiphyResume(i)

\* Every request completes (with a response or an error) and the event loop
\* runs every continuation that is due.
LiveSpec == Spec /\ \A i \in Slots : WF_vars(CallStep(i))


\* ------------------------- direct calls of the catalog functions
\* The categories of the application.
Categories == DOMAIN CatalogFile

\* What a slot of a catalog entry may hold: nothing, a local file named by
\* the convention, a CDN location without a file extension.
SlotUrls(slot, extension) ==
  { Undefined,
    Str(<<ASSETS_BASE_PATH, "rain", extension>>),
    Str(<<"https://your-cdn.com/assets/", slot, "/rain">>) }

\* The shapes CURATED_ASSETS[weatherKey] can have: an object with any of
\* gif, video and image, a string, null, and no entry.
Entry(kind, str, gif, video, image) ==
  [kind |-> kind, str |-> str, gif |-> gif, video |-> video, image |-> image]

Entries ==
  { Entry("object", Undefined, g, v, m) :
      g \in SlotUrls("gif", ".gif"), v \in SlotUrls("video", ".mp4"),
      m \in SlotUrls("image", ".jpg") }
  \cup { Entry("string", Str(<<ASSETS_BASE_PATH, "rain", ".gif">>),
                Undefined, Undefined, Undefined),
         Entry("null", Undefined, Undefined, Undefined, Undefined),
         Entry("undefined", Undefined, Undefined, Undefined, Undefined) }

\* Keys the functions are called with: the categories, a name outside them,
\* the empty string, names of inherited properties.
ProbeKeys ==
  { Str(<<k>>) : k \in Categories \cup {"hail"} \cup InheritedKeys }
  \cup { Str(<<>>) }

CatalogInit ==
  /\ apiFallbackCache = EmptyCache
  /\ assetAvailabilityCache = EmptyCache
  /\ envKey = Undefined
  /\ calls = [i \in Slots |-> IdleCall]
  /\ runs = 0
  /\ conflicts = {}
  /\ adapter = Unmounted
  /\ \E a \in Entries, k \in ProbeKeys, v \in BOOLEAN :
       probe = [NoProbe EXCEPT !.asset = a, !.weatherKey = k,
                               !.preferVideo = v]

\* The selection of getCuratedAsset on the entry.
CallSelect ==
  /\ probe.fn = "none"
  /\ probe' = [probe EXCEPT !.fn = "select",
                 !.out = getCuratedAssetOf(probe.asset, probe.preferVideo)]
  /\ UNCHANGED <<apiFallbackCache, assetAvailabilityCache, envKey, calls,
                 runs, conflicts, adapter>>

\* getCuratedAsset(weatherKey, preferVideo) on the shipped catalog.
CallGetCuratedAsset ==
  /\ probe.fn = "none"
  /\ probe' = [probe EXCEPT !.fn = "getCuratedAsset",
                 !.out = getCuratedAsset(probe.weatherKey, probe.preferVideo)]
  /\ UNCHANGED <<apiFallbackCache, assetAvailabilityCache, envKey, calls,
                 runs, conflicts, adapter>>

\* getStaticFallback(weatherKey)
CallGetStaticFallback ==
  /\ probe.fn = "none"
  /\ probe' = [probe EXCEPT !.fn = "getStaticFallback",
                 !.out = getStaticFallback(probe.weatherKey)]
  /\ UNCHANGED <<apiFallbackCache, assetAvailabilityCache, envKey, calls,
                 runs, conflicts, adapter>>

\* Tier 1 of getWeatherBackground for the entry, its candidate reachable.
CallTier1 ==
  /\ probe.fn = "none"
  /\ LET curatedAsset == getCuratedAssetOf(probe.asset, probe.preferVideo)
     IN /\ Truthy(curatedAsset)
        /\ probe' = [probe EXCEPT !.fn = "tier1", !.out = curatedAsset,
                                  !.result = CuratedResult(curatedAsset)]
  /\ UNCHANGED <<apiFallbackCache, assetAvailabilityCache, envKey, calls,
                 runs, conflicts, adapter>>

CatalogNext ==
  \/ CallSelect
  \/ CallGetCuratedAsset
  \/ CallGetStaticFallback
  \/ CallTier1

CatalogSpec == CatalogInit /\ [][CatalogNext]_vars

\* ------------------------------------- the WeatherBackground component
\* The weatherKey prop: a category with curated assets, one without, none.
PropKeys == {Str(<<"rain">>), Str(<<"hail">>), Str(<<>>)}

\* apiFallbackCache.get(weatherKey) || null
getCachedApiFallback(weatherKey) ==
  OrElse(IF weatherKey \in DOMAIN apiFallbackCache
           THEN apiFallbackCache[weatherKey] ELSE Undefined,
         Null)

getCachedBackground(weatherKey) ==
  LET curated == getCuratedAsset(weatherKey, FALSE)
  IN IF Truthy(curated) THEN curated ELSE getCachedApiFallback(weatherKey)

\* The format the effect gives a cached URL.
CachedFormat(cached) ==
  IF Includes(cached, ".mp4") \/ Includes(cached, "/mp4") THEN "video"
  ELSE IF Includes(cached, ".gif") THEN "gif"
  ELSE "image"

\* backgroundData?.url && !useStaticFallback: renderMedia() is in the tree.
MediaMounted(a) ==
  /\ a.mounted /\ ~a.crashed
  /\ Truthy(a.backgroundData.url)
  /\ ~a.useStaticFallback

\* renderMedia renders a <video> (else an <img>).
IsVideo(a) ==
  \/ a.backgroundData.format = "video"
  \/ a.preferVideo /\ (\/ Includes(a.backgroundData.url, ".mp4")
                        \/ Includes(a.backgroundData.url, "/mp4"))

\* renderMedia throws: url.includes on a url that is no string.
RenderThrows(a) ==
  /\ MediaMounted(a)
  /\ a.backgroundData.format # "video"
  /\ a.preferVideo
  /\ ~IsString(a.backgroundData.url)

\* (useStaticFallback || error): the static fallback <img> is in the tree.
FallbackShown(a) == a.mounted /\ ~a.crashed /\ (a.useStaticFallback \/ a.error)

\* A variant that always takes the fallback of neutral.
getStaticFallbackUrl_Neutral(a) == STATIC_FALLBACK_IMAGES.neutral

getStaticFallbackUrl(a) ==
  IF a.backgroundData.type = "static" THEN a.backgroundData.url
  ELSE getStaticFallback(OrElse(a.weatherKey, Str(<<"neutral">>)))

\* An error thrown in render or in an effect, with no error boundary: React
\* unmounts the tree.
Crash(a) == [a EXCEPT !.crashed = TRUE, !.media = "none"]

\* The component re-renders from state old to state new: a media element
\* that stays the same element with the same source keeps its load state, a
\* new element or source starts loading.
Commit(old, new) ==
  IF RenderThrows(new) THEN Crash(new)
  ELSE [new EXCEPT !.media =
          IF ~MediaMounted(new) THEN "none"
          ELSE IF /\ MediaMounted(old)
                  /\ old.backgroundData.url = new.backgroundData.url
                  /\ IsVideo(old) = IsVideo(new)
            THEN old.media
          ELSE "loading"]

\* The component re-renders after a handler of its media element ran: the
\* element, when still in the tree, has the load state the event reported.
Handled(new, state) ==
  [new EXCEPT !.media = IF MediaMounted(new) THEN state ELSE "none"]

\* A continuation is due as a microtask (the code after a settled await, the
\* .then or .catch callback of a settled promise): it runs before the next
\* event (a render with new props, a media event) is handled.
Due == \E i \in Slots : calls[i].pc \in {"avail", "giphy", "done"}

AdapterInit ==
  /\ apiFallbackCache = EmptyCache
  /\ assetAvailabilityCache = EmptyCache
  /\ envKey \in EnvKeys
  /\ calls = [i \in Slots |-> IdleCall]
  /\ runs = 0
  /\ conflicts = {}
  /\ adapter = Unmounted
  /\ probe = NoProbe

\* The component is mounted, or re-rendered with new props, and its effect
\* runs: nothing for an empty key; the cached URL when getCachedBackground
\* has one; else a getWeatherBackground call.
Render(weatherKey, giphyApiKey, preferVideo) ==
  /\ ~adapter.crashed /\ ~Due
  /\ \/ ~adapter.mounted
     \/ <<adapter.weatherKey, adapter.giphyApiKey, adapter.preferVideo>>
          # <<weatherKey, giphyApiKey, preferVideo>>
  /\ LET a == [adapter EXCEPT !.mounted = TRUE, !.weatherKey = weatherKey,
                              !.giphyApiKey = giphyApiKey,
                              !.preferVideo = preferVideo]
         cached == getCachedBackground(weatherKey)
     IN IF RenderThrows(a)
          THEN /\ adapter' = Crash(a)
               /\ UNCHANGED <<calls, runs>>
        ELSE IF IsEmptyKey(weatherKey)
          THEN /\ adapter' = Commit(adapter, [a EXCEPT !.isLoading = FALSE,
                                                      !.slot = 0,
                                                      !.settled = FALSE])
               /\ UNCHANGED <<calls, runs>>
        ELSE IF Truthy(cached)
          THEN /\ adapter' =
                    IF ~IsString(cached) THEN Crash(a)
                    ELSE Commit(adapter,
                           [a EXCEPT !.backgroundData =
                                       Descriptor(cached, "cached",
                                                  CachedFormat(cached)),
                                     !.isLoading = FALSE,
                                     !.slot = 0, !.settled = TRUE])
               /\ UNCHANGED <<calls, runs>>
        ELSE \E i \in Slots :
               /\ Free(i)
               /\ calls' = [calls EXCEPT ![i] =
                              Started(weatherKey, giphyApiKey, preferVideo)]
               /\ runs' = runs + 1
               /\ adapter' = Commit(adapter,
                                [a EXCEPT !.isLoading = TRUE, !.error = FALSE,
                                          !.useStaticFallback = FALSE,
                                          !.slot = i, !.settled = FALSE])
  /\ UNCHANGED <<apiFallbackCache, assetAvailabilityCache, envKey, conflicts,
                 probe>>

\* The promise of call i has settled and its .then or .catch callback runs
\* (whatever the props are by now).
Settle(i) ==
  /\ adapter.mounted /\ ~adapter.crashed
  /\ calls[i].pc = "done"
  /\ LET a == IF calls[i].result = Rejected
                THEN [adapter EXCEPT !.error = TRUE, !.isLoading = FALSE,
                                     !.useStaticFallback = TRUE]
                ELSE [adapter EXCEPT !.backgroundData = calls[i].result,
                                     !.isLoading = FALSE]
     IN adapter' = Commit(adapter,
                     IF adapter.slot = i
                       THEN [a EXCEPT !.slot = 0, !.settled = TRUE]
                       ELSE a)
  /\ calls' = [j \in Slots |->
                 IF j = i THEN IdleCall
                 ELSE [calls[j] EXCEPT !.prior = @ \ {i}]]
  /\ UNCHANGED <<apiFallbackCache, assetAvailabilityCache, envKey, runs,
                 conflicts, probe>>

\* onLoadedData of the <video>, onLoad of the <img>.
MediaLoad ==
  /\ MediaMounted(adapter) /\ adapter.media = "loading" /\ ~Due
  /\ adapter' = Handled([adapter EXCEPT !.isLoading = FALSE,
                                         !.useStaticFallback = FALSE],
                         "loaded")
  /\ UNCHANGED <<apiFallbackCache, assetAvailabilityCache, envKey, calls,
                 runs, conflicts, probe>>

\* onError of the <video>; onError of the <img>, which keeps the image when
\* the descriptor is of type static.
MediaError ==
  /\ MediaMounted(adapter) /\ adapter.media = "loading" /\ ~Due
  /\ adapter' = Handled([adapter EXCEPT
                            !.useStaticFallback =
                               IF IsVideo(adapter) THEN TRUE
                               ELSE IF adapter.backgroundData.type # "static"
                                 THEN TRUE
                               ELSE @,
                            !.isLoading = FALSE],
                         "failed")
  /\ UNCHANGED <<apiFallbackCache, assetAvailabilityCache, envKey, calls,
                 runs, conflicts, probe>>

AdapterNext ==
  \/ \E k \in PropKeys, a \in ApiKeys(envKey), v \in BOOLEAN : Render(k, a, v)
  \/ \E i \in Slots, o \in SearchOutcomes : SearchDone(i, o)
  \/ \E i \in Slots : JsonRejected(i)
  \/ \E i \in Slots, b \in Bodies : JsonDone(i, b)
  \/ \E i \in Slots : GiphyResume(i)
  \/ \E i \in Slots : Settle(i)
  \/ MediaLoad
  \/ MediaError

AdapterSpec == AdapterInit /\ [][AdapterNext]_vars

\* ------------------------------- the ambience classification (App.jsx)
\* A number of the provider's JSON, and what Number() makes of a value that
\* is no number.
Num(n) == <<"num", n>>
NaN == <<"nan">>

\* Number(v ?? 0)
ToNumber(v) == IF v \in {Undefined, Null} THEN Num(0) ELSE v

\* Math.max(a, b): NaN when either is NaN.
MathMax(a, b) ==
  IF a = NaN \/ b = NaN THEN NaN
  ELSE IF a[2] >= b[2] THEN a ELSE b

\* a >= n: false for NaN.
AtLeast(a, n) == a # NaN /\ a[2] >= n

\* The rain amount (mm) from which rain is heavy, the wind speed (m/s) from
\* which it is windy.
HeavyRainAmount == 6
WindySpeed == 8

\* Values of weather[0].main the provider sends, and one in capitals, with
\* their lower-case text cut into the tokens the classification searches for.
LowerCaseOf ==
  [Thunderstorm |-> <<"thunder", "storm">>, Drizzle |-> <<"drizzle">>,
   Rain |-> <<"rain">>, RAIN |-> <<"rain">>, Snow |-> <<"snow">>,
   Mist |-> <<"mist">>, Fog |-> <<"fog">>, Clear |-> <<"clear">>,
   Clouds |-> <<"cloud", "s">>, Squall |-> <<"squall">>]

\* (v ?? "").toLowerCase(): a TypeError for a value that is no string.
ToLowerCase(v) ==
  IF v \in {Undefined, Null} THEN Str(<<>>)
  ELSE IF IsString(v) THEN Str(LowerCaseOf[v[2]])
  ELSE Thrown

Ambience(key, label) == [key |-> Str(<<key>>), label |-> label]

\* The memo throws (and with it the render of App): no key, no label.
AmbienceThrown == [key |-> Thrown, label |-> ""]

\* The provider data as the classification reads it: whether data is loaded,
\* weather[0].main, wind.speed, rain["1h"], rain["3h"] (undefined for a
\* missing field or a missing parent).
ProviderData(loaded, main, speed, rain1h, rain3h) ==
  [loaded |-> loaded, main |-> main, speed |-> speed,
   rain1h |-> rain1h, rain3h |-> rain3h]

NoData == ProviderData(FALSE, Undefined, Undefined, Undefined, Undefined)

Mains == {Str(<<m>>) : m \in DOMAIN LowerCaseOf} \cup {Undefined, Num42}
Speeds == {Undefined, Num(0), Num(7), Num(8)}
Amounts == {Undefined, Num(0), Num(5), Num(6), NaN}

ProviderInputs ==
  {NoData} \cup
  {ProviderData(TRUE, m, s, r1, r3) :
     m \in Mains, s \in Speeds, r1 \in Amounts, r3 \in Amounts}

\* The ambience memo.
ambience(data) ==
  LET main == ToLowerCase(data.main)
      windSpeed == ToNumber(data.speed)
      rainAmount == MathMax(ToNumber(data.rain1h), ToNumber(data.rain3h))
  IN IF main = Thrown THEN AmbienceThrown
     ELSE IF Includes(main, "thunder") THEN Ambience("thunder", "Thunderstorm")
     ELSE IF Includes(main, "rain") \/ Includes(main, "drizzle")
       THEN IF AtLeast(rainAmount, HeavyRainAmount)
              THEN Ambience("heavy-rain", "Heavy Rain")
            ELSE Ambience("rain", "Rain")
     ELSE IF AtLeast(windSpeed, WindySpeed) THEN Ambience("wind", "Windy")
     ELSE IF Includes(main, "clear") THEN Ambience("sunny", "Sunny")
     ELSE IF Includes(main, "cloud") THEN Ambience("cloud", "Cloudy")
     ELSE Ambience("neutral", "Neutral")

\* The weather types the README lists as supported, by their category.
SupportedTypes ==
  {"thunder", "rain", "heavy-rain", "wind", "sunny", "cloud", "snow", "fog",
   "neutral"}

AmbienceInit ==
  /\ apiFallbackCache = EmptyCache
  /\ assetAvailabilityCache = EmptyCache
  /\ envKey = Undefined
  /\ calls = [i \in Slots |-> IdleCall]
  /\ runs = 0
  /\ conflicts = {}
  /\ adapter = Unmounted
  /\ \E d \in ProviderInputs : probe = [NoProbe EXCEPT !.asset = d]

\* App renders with the data and the memo is computed.
CallAmbience ==
  /\ probe.fn = "none"
  /\ probe' = [probe EXCEPT !.fn = "ambience", !.out = ambience(probe.asset)]
  /\ UNCHANGED <<apiFallbackCache, assetAvailabilityCache, envKey, calls,
                 runs, conflicts, adapter>>

AmbienceNext == CallAmbience

AmbienceSpec == AmbienceInit /\ [][AmbienceNext]_vars

\* ------------------------------------------------------- vocabulary
Done(i) == calls[i].pc = "done"

\* Call c has an API key: passed, or from the process configuration.
HasApiKey(c) == Truthy(c.giphyApiKey) \/ Truthy(envKey)

SameInputs(a, b) ==
  /\ a.weatherKey = b.weatherKey
  /\ a.giphyApiKey = b.giphyApiKey
  /\ a.preferVideo = b.preferVideo

\* Call j was made after call i had returned, and clearBackgroundCache was
\* not called since call i was made.
Follows(i, j) == i \in calls[j].prior /\ calls[i].cleared = "no"

\* The still candidate of a category, when its catalog entry has one.
HasStill(weatherKey) ==
  /\ HasKey(CURATED_ASSETS, weatherKey)
  /\ Truthy(CURATED_ASSETS[weatherKey[2]].image)

\* ------------------------------------------------------------ claims

\* C1 (as claimed): every call that has settled returned a descriptor of one
\* of the three origins with a non-empty url; none rejected.
C1_NeverThrows ==
  \A i \in Slots :
    Done(i) => /\ calls[i].result.type \in {"curated", "api", "static"}
               /\ Truthy(calls[i].result.url)

\* C2 (as claimed): when the preferred curated candidate of a category with a
\* still candidate turns out unreachable, the call goes on to check that
\* still candidate.
C2_StillRetried ==
  [][\A i \in Slots :
       (/\ calls[i].tier1 = "none"
        /\ calls'[i].tier1 = "unreachable"
        /\ HasStill(calls[i].weatherKey))
       => /\ calls'[i].pc \in {"head", "avail"}
          /\ calls'[i].stage = 2
          /\ calls'[i].probeUrl = CURATED_ASSETS[calls[i].weatherKey[2]].image
    ]_vars

\* C3: a call with a key whose curated tier failed and whose search returned
\* an item with a media location L returns {api, L}; a later call for the same
\* category with a key, its curated tier failing too, returns the same
\* location from the cache without a search request (no clearBackgroundCache
\* since the first call, and no other search result written for the category).
C3_ExternalThenCached ==
  \A i, j \in Slots :
    (/\ Done(i) /\ Done(j) /\ Follows(i, j)
     /\ calls[i].weatherKey = calls[j].weatherKey
     /\ HasApiKey(calls[i]) /\ HasApiKey(calls[j])
     /\ calls[i].got = "item"
     /\ calls[j].tier1 \in {"absent", "unreachable"}
     /\ calls[i].weatherKey \notin conflicts)
    => /\ calls[i].result.type = "api"
       /\ calls[i].result.url = calls[i].location
       /\ calls[j].result.type = "api"
       /\ calls[j].result.url = calls[i].location
       /\ calls[j].searches = 0

C3_Witness ==
  \E i, j \in Slots :
    /\ Done(i) /\ Done(j) /\ Follows(i, j)
    /\ calls[i].weatherKey = calls[j].weatherKey
    /\ calls[i].tier1 = "unreachable" /\ calls[j].tier1 = "unreachable"
    /\ calls[i].got = "item" /\ calls[i].searches = 1
    /\ calls[j].got = "hit" /\ calls[j].searches = 0
    /\ calls[j].result = Descriptor(GiphyGif, "api", "gif")
    /\ calls[i].weatherKey \notin conflicts


\* The preferred curated candidate of a call.
Preferred(c) == getCuratedAsset(c.weatherKey, c.preferVideo)

\* Ways a call's Tier 2 can have ended after which its outcome is in the
\* caches: it was not reached or skipped, it was answered from the cache, or
\* its search returned an item whose location was cached.
Memoized == {"none", "nokey", "hit", "item", "nonstring"}

\* C4 (as claimed): any two calls with identical inputs and no
\* clearBackgroundCache since either was made, overlapping or not and whatever
\* their requests ended with, returned the same descriptor and issued between
\* them at most one HEAD request and at most one search request.
C4_Idempotent ==
  \A i, j \in Slots :
    (/\ i # j /\ Done(i) /\ Done(j)
     /\ SameInputs(calls[i], calls[j])
     /\ calls[i].cleared = "no" /\ calls[j].cleared = "no")
    => /\ calls[i].result = calls[j].result
       /\ calls[i].heads + calls[j].heads <= 1
       /\ calls[i].searches + calls[j].searches <= 1

\* C4 (amended): for two calls with identical inputs made one after the other,
\* with no clearBackgroundCache in between and no cached value replaced by a
\* different one: at most one HEAD request between them; and when the first
\* call's Tier 2 did not end in a failed, empty or unreadable search, at most
\* one search request between them and the same outcome for both.
C4_SequentialIdempotent ==
  \A i, j \in Slots :
    (/\ Done(i) /\ Done(j) /\ Follows(i, j)
     /\ SameInputs(calls[i], calls[j])
     /\ conflicts = {})
    => /\ calls[i].heads + calls[j].heads <= 1
       /\ calls[i].got \in Memoized
            => /\ calls[i].searches + calls[j].searches <= 1
               /\ calls[j].result = calls[i].result

C4_Witness ==
  \E i, j \in Slots :
    /\ Done(i) /\ Done(j) /\ Follows(i, j)
    /\ SameInputs(calls[i], calls[j])
    /\ conflicts = {}
    /\ calls[i].heads = 1 /\ calls[j].heads = 0
    /\ calls[i].searches = 1 /\ calls[j].searches = 0
    /\ calls[i].got = "item"
    /\ calls[j].result = calls[i].result
    /\ calls[j].result.type = "api"

\* C5: once a probe has stored a verdict for a location, a later call that
\* needs the location, made before any clearBackgroundCache, issues no HEAD
\* request for it and takes the stored verdict; a stored "unreachable" keeps
\* the later call from returning the curated asset, whatever a new probe
\* would find.
\* In steps: a call that starts while a verdict is stored for its candidate
\* takes that verdict without a HEAD request, and a stored verdict stays
\* stored until clearBackgroundCache. In states: a call made after one that
\* probed the same candidate and returned issues no HEAD request and ends its
\* Tier 1 as the stored verdict says.
C5_ProbeSticky ==
  /\ [][/\ \A j \in Slots :
            (/\ calls[j].pc = "idle" /\ calls'[j].pc # "idle"
             /\ Preferred(calls'[j]) \in DOMAIN assetAvailabilityCache)
            => /\ calls'[j].pc = "avail"
               /\ calls'[j].heads = 0
               /\ calls'[j].isAvailable =
                    assetAvailabilityCache[Preferred(calls'[j])]
        /\ (DOMAIN assetAvailabilityCache' = {}
            \/ DOMAIN assetAvailabilityCache \subseteq DOMAIN assetAvailabilityCache')
      ]_vars
  /\ [](\A i, j \in Slots :
          (/\ Done(i) /\ Follows(i, j)
           /\ calls[i].heads >= 1
           /\ Preferred(calls[j]) = Preferred(calls[i]))
          => LET u == Preferred(calls[i])
             IN /\ u \in DOMAIN assetAvailabilityCache
                /\ calls[j].heads = 0
                /\ calls[j].pc # "head"
                /\ (calls[j].pc = "avail" /\ u \notin conflicts)
                     => calls[j].isAvailable = assetAvailabilityCache[u]
                /\ (Done(j) /\ u \notin conflicts)
                     => (calls[j].tier1 = "reachable") = assetAvailabilityCache[u])

C5_Witness ==
  \E i, j \in Slots :
    /\ Done(i) /\ Done(j) /\ Follows(i, j)
    /\ calls[i].heads = 1 /\ calls[i].tier1 = "unreachable"
    /\ Preferred(calls[j]) = Preferred(calls[i])
    /\ calls[j].heads = 0 /\ calls[j].tier1 = "unreachable"
    /\ assetAvailabilityCache[Preferred(calls[i])] = FALSE

\* C6: clearBackgroundCache empties both caches: when a call has returned, the
\* caches are cleared, and the same call is made again (no other call made),
\* the second call answers nothing from the caches: it issues a HEAD request
\* for its curated candidate and, when it reaches the search with a key, a
\* search request.
C6_ClearThenFresh ==
  /\ \A i \in Slots :
       (runs = 1 /\ Done(i) /\ calls[i].cleared = "after")
       => /\ DOMAIN apiFallbackCache = {}
          /\ DOMAIN assetAvailabilityCache = {}
  /\ \A i, j \in Slots :
       (/\ runs = 2 /\ Done(i) /\ i \in calls[j].prior
        /\ calls[i].cleared = "after" /\ calls[j].cleared = "no"
        /\ SameInputs(calls[i], calls[j]))
       => /\ Truthy(Preferred(calls[j])) => calls[j].heads = 1
          /\ calls[j].got \notin {"none", "nokey"}
               => calls[j].searches = 1 /\ calls[j].got # "hit"

C6_Witness ==
  \E i, j \in Slots :
    /\ runs = 2 /\ Done(i) /\ Done(j) /\ i \in calls[j].prior
    /\ calls[i].cleared = "after" /\ calls[j].cleared = "no"
    /\ SameInputs(calls[i], calls[j])
    /\ calls[i].tier1 = "unreachable" /\ calls[i].got = "item"
    /\ calls[j].heads = 1 /\ calls[j].searches = 1
    /\ calls[j].tier1 = "unreachable" /\ calls[j].got = "item"

\* C7: a call for a non-empty category without an API key (none passed, none
\* in the process configuration) whose curated candidate is absent or
\* unreachable issues no search request and returns the static fallback of
\* the category.
C7_NoKeyStatic ==
  \A i \in Slots :
    (/\ Done(i)
     /\ ~Truthy(calls[i].giphyApiKey) /\ ~Truthy(envKey)
     /\ calls[i].tier1 \in {"absent", "unreachable"})
    => /\ calls[i].searches = 0
       /\ calls[i].result =
            Descriptor(getStaticFallback(calls[i].weatherKey), "static", "image")

C7_Witness ==
  \E i, j \in Slots :
    /\ Done(i) /\ Done(j)
    /\ ~Truthy(envKey)
    /\ ~Truthy(calls[i].giphyApiKey) /\ ~Truthy(calls[j].giphyApiKey)
    /\ calls[i].tier1 = "unreachable" /\ calls[j].tier1 = "absent"
    /\ calls[i].result.type = "static" /\ calls[j].result.type = "static"
    /\ calls[i].result.url = STATIC_FALLBACK_IMAGES.rain

\* A step of call i itself (not a clearBackgroundCache, which only marks it).
Steps(i) == calls'[i].pc # calls[i].pc

\* C8: when the search of a call fails by a network error, a non-success
\* status or an empty result list, the call writes nothing to the
\* external-lookup cache (which holds no entry for the category when no
\* other call was made) and returns the static fallback of its category
\* (it does not reject).
C8_SearchFailureStatic ==
  [][\A i \in Slots :
       (Steps(i) /\ calls'[i].got \in {"neterr", "notok", "empty"})
       => /\ apiFallbackCache' = apiFallbackCache
          /\ runs = 1 => calls[i].weatherKey \notin DOMAIN apiFallbackCache'
          /\ calls'[i].pc \in {"giphy", "done"}
          /\ calls'[i].pc = "done" =>
               calls'[i].result =
                 Descriptor(getStaticFallback(calls[i].weatherKey),
                            "static", "image")
    ]_vars

C8_Witness ==
  \E i, j \in Slots :
    /\ Done(i) /\ Done(j)
    /\ calls[i].got = "empty" /\ calls[j].got = "neterr"
    /\ calls[i].searches = 1 /\ calls[j].searches = 1
    /\ calls[i].result.type = "static" /\ calls[j].result.type = "static"
    /\ DOMAIN apiFallbackCache = {}

\* C9 (as claimed): a search result whose first item lacks the media location
\* is handled like an empty result: the call writes nothing to the
\* external-lookup cache and returns the static fallback of its category.
C9_MalformedLikeEmpty ==
  [][\A i \in Slots :
       (Steps(i) /\ calls'[i].got = "malformed")
       => /\ apiFallbackCache' = apiFallbackCache
          /\ calls'[i].pc \in {"giphy", "done"}
          /\ calls'[i].pc = "done" =>
               calls'[i].result =
                 Descriptor(getStaticFallback(calls[i].weatherKey),
                            "static", "image")
    ]_vars

\* C10: a call with an empty or absent category returns at once the static
\* fallback of neutral, issues no HEAD and no search request, and leaves both
\* caches as they are, whatever its API key and preferVideo.
C10_EmptyKeyShortCircuit ==
  [][\A i \in Slots :
       (/\ calls[i].pc = "idle" /\ calls'[i].pc # "idle"
        /\ calls'[i].weatherKey \in EmptyKeys)
       => /\ calls'[i].pc = "done"
          /\ calls'[i].result =
               Descriptor(STATIC_FALLBACK_IMAGES.neutral, "static", "image")
          /\ calls'[i].heads = 0 /\ calls'[i].searches = 0
          /\ UNCHANGED <<apiFallbackCache, assetAvailabilityCache>>
    ]_vars

C10_Witness ==
  \E i, j \in Slots :
    /\ Done(i) /\ Done(j)
    /\ calls[i].weatherKey = Null /\ calls[j].weatherKey = Str(<<>>)
    /\ Truthy(calls[i].giphyApiKey) /\ calls[i].preferVideo
    /\ i \in calls[j].prior
    /\ calls[i].result = calls[j].result
    /\ calls[j].result.type = "static"


\* Slot s of the probed entry holds a candidate.
Has(s) == probe.asset.kind = "object" /\ probe.asset[s] # Undefined

\* C14: getCuratedAsset selects, for every combination of present and absent
\* gif, video and image: the video when preferVideo and there is one; else
\* the gif; else the video; else the image; else nothing. On the shipped
\* catalog, where each category has both, the video for preferVideo and the
\* gif without; nothing for a key without an entry.
C14_SelectionOrder ==
  /\ probe.fn = "select" /\ probe.asset.kind \in {"object", "undefined", "null"}
     => /\ (probe.preferVideo /\ Has("video")) => probe.out = probe.asset.video
        /\ (~(probe.preferVideo /\ Has("video")) /\ Has("gif"))
             => probe.out = probe.asset.gif
        /\ (~Has("gif") /\ Has("video")) => probe.out = probe.asset.video
        /\ (~Has("gif") /\ ~Has("video") /\ Has("image"))
             => probe.out = probe.asset.image
        /\ (~Has("gif") /\ ~Has("video") /\ ~Has("image")) => probe.out = Null
  /\ probe.fn = "getCuratedAsset"
     => IF Len(probe.weatherKey) = 2 /\ probe.weatherKey[2] \in Categories
          THEN probe.out = IF probe.preferVideo
                             THEN CURATED_ASSETS[probe.weatherKey[2]].video
                             ELSE CURATED_ASSETS[probe.weatherKey[2]].gif
          ELSE probe.out = Null

C14_Witness ==
  /\ probe.fn = "select" /\ probe.preferVideo
  /\ Has("gif") /\ Has("video") /\ Has("image")
  /\ probe.out = probe.asset.video
  /\ probe.out # probe.asset.gif

\* C15 (as claimed): getStaticFallback returns a non-empty URI for every
\* category and the URI of neutral for every other key, names of inherited
\* object properties included.
C15_StaticFallbackTotal ==
  probe.fn = "getStaticFallback"
  => IF Len(probe.weatherKey) = 2 /\ probe.weatherKey[2] \in Categories
       THEN IsString(probe.out) /\ Truthy(probe.out)
       ELSE probe.out = STATIC_FALLBACK_IMAGES.neutral

\* The format that names a slot of a catalog entry.
SlotFormat == [gif |-> "gif", video |-> "video", image |-> "image"]

\* C16 (as claimed): the descriptor Tier 1 returns for a catalog entry has the
\* format of the slot its url was taken from, whatever the text of the url.
C16_FormatIsSlot ==
  probe.fn = "tier1" /\ probe.asset.kind = "object"
  => \A s \in DOMAIN SlotFormat :
       probe.result.url = probe.asset[s]
       => probe.result.format = SlotFormat[s]


\* The text of a url carries a video-file signature.
VideoSignature(url) == Includes(url, ".mp4") \/ Includes(url, "/mp4")

\* C17: a descriptor of origin api has format video exactly when its call
\* asked for video and its url carries a video-file signature, and format gif
\* otherwise; never image.
C17_ApiFormat ==
  \A i \in Slots :
    (Done(i) /\ calls[i].result.type = "api")
    => /\ calls[i].result.format \in {"video", "gif"}
       /\ calls[i].result.format = "video"
            <=> (calls[i].preferVideo /\ VideoSignature(calls[i].result.url))

C17_Witness ==
  \E i, j \in Slots :
    /\ Done(i) /\ Done(j)
    /\ calls[i].result = Descriptor(GiphyMp4, "api", "video")
    /\ calls[j].result = Descriptor(GiphyMp4, "api", "gif")
    /\ calls[i].preferVideo /\ ~calls[j].preferVideo

\* C18: clearBackgroundCache clears both caches in one step: no step removes
\* entries of one cache and leaves the other cache with entries, so no step
\* of a pending call sees one cache cleared and the other not.
C18_ClearAtomic ==
  [][(\/ \E k \in DOMAIN apiFallbackCache : k \notin DOMAIN apiFallbackCache'
      \/ \E u \in DOMAIN assetAvailabilityCache :
           u \notin DOMAIN assetAvailabilityCache')
     => /\ apiFallbackCache' = EmptyCache
        /\ assetAvailabilityCache' = EmptyCache
    ]_vars

C18_Witness ==
  \E i \in Slots :
    /\ calls[i].cleared = "pending" /\ calls[i].pc = "search"
    /\ calls[i].heads = 0 /\ calls[i].tier1 = "unreachable"
    /\ apiFallbackCache = EmptyCache
    /\ assetAvailabilityCache = EmptyCache

\* Call i is pending.
Pending(i) == calls[i].pc \notin {"idle", "done"}

\* C20: a call issues at most two HEAD requests and at most one search
\* request, and every pending call settles once its requests complete.
C20_TerminatesNoRetry ==
  /\ [](\A i \in Slots : calls[i].heads <= 2 /\ calls[i].searches <= 1)
  /\ \A i \in Slots : Pending(i) ~> Done(i)

C20_Witness ==
  \E i \in Slots :
    /\ Done(i) /\ calls[i].heads = 1 /\ calls[i].searches = 1
    /\ calls[i].got = "neterr" /\ calls[i].result.type = "static"


\* The component stands for a non-empty category whose resolution has
\* settled.
Settled(a) == a.mounted /\ ~IsEmptyKey(a.weatherKey) /\ a.settled

\* C11 (as claimed): once the resolution for a non-empty category has
\* settled, the component shows (not hidden by isLoading) a media element that
\* has not failed, or the static fallback image of the category.
C11_NeverEmpty ==
  Settled(adapter)
  => /\ ~adapter.crashed
     /\ ~adapter.isLoading
     /\ \/ MediaMounted(adapter) /\ adapter.media # "failed"
        \/ /\ MediaMounted(adapter)
           /\ adapter.backgroundData.url = getStaticFallback(adapter.weatherKey)
        \/ /\ FallbackShown(adapter)
           /\ getStaticFallbackUrl(adapter) = getStaticFallback(adapter.weatherKey)

\* C12 (as claimed): for a non-empty category the effect calls
\* getWeatherBackground, and the media element rendered once it has settled
\* shows a descriptor that getWeatherBackground returned.
C12_OnlyResolved ==
  [][/\ \A k \in PropKeys :
          (adapter'.weatherKey = k /\ adapter.weatherKey # k /\ ~IsEmptyKey(k)
           /\ ~adapter'.crashed)
          => runs' = runs + 1
     /\ (Settled(adapter') /\ MediaMounted(adapter'))
          => adapter'.backgroundData.type \in {"curated", "api", "static"}
    ]_vars

\* C13 (as claimed): with preferVideo the media shown for a category with
\* curated assets, once loaded, is its video candidate in a <video>; without
\* preferVideo it is its gif candidate.
C13_PreferVideoHonoured ==
  (/\ Settled(adapter) /\ MediaMounted(adapter) /\ adapter.media = "loaded"
   /\ adapter.weatherKey = Str(<<"rain">>)
   /\ adapter.backgroundData.type \in {"curated", "cached"})
  => IF adapter.preferVideo
       THEN /\ adapter.backgroundData.url = CURATED_ASSETS.rain.video
            /\ IsVideo(adapter)
       ELSE /\ adapter.backgroundData.url = CURATED_ASSETS.rain.gif
            /\ ~IsVideo(adapter)

\* The step is the onError handler of the media element.
ErrorStep ==
  /\ MediaMounted(adapter) /\ adapter.media = "loading"
  /\ adapter'.media \in {"none", "failed"}
  /\ calls' = calls
  /\ <<adapter'.weatherKey, adapter'.giphyApiKey, adapter'.preferVideo>>
       = <<adapter.weatherKey, adapter.giphyApiKey, adapter.preferVideo>>

\* C19: when the media element fails to load (a <video>, or an <img> whose
\* descriptor is not of type static), the component shows the static fallback
\* of its current category (of neutral without one) in place of the media,
\* makes no getWeatherBackground call and leaves both caches as they are.
C19_ErrorToStaticFallback ==
  [][(ErrorStep /\ (IsVideo(adapter) \/ adapter.backgroundData.type # "static"))
     => /\ adapter'.useStaticFallback
        /\ FallbackShown(adapter') /\ ~MediaMounted(adapter')
        /\ getStaticFallbackUrl(adapter') =
             IF IsEmptyKey(adapter.weatherKey)
               THEN STATIC_FALLBACK_IMAGES.neutral
               ELSE getStaticFallback(adapter.weatherKey)
        /\ runs' = runs
        /\ UNCHANGED <<apiFallbackCache, assetAvailabilityCache>>
    ]_vars

C19_Witness ==
  /\ adapter.mounted /\ ~adapter.crashed
  /\ adapter.weatherKey = Str(<<"rain">>)
  /\ adapter.backgroundData.url = CURATED_ASSETS.rain.gif
  /\ adapter.useStaticFallback /\ ~adapter.error
  /\ adapter.media = "none"
  /\ getStaticFallbackUrl(adapter) = STATIC_FALLBACK_IMAGES.rain

\* Ways the Tier 2 of a call with a key can end without a location: the
\* search failed, its body was unreadable, its list was empty or its first
\* item had no location, or the cache held an entry without a location.
NoLocation == {"neterr", "notok", "badjson", "empty", "malformed", "hit"}

\* C21: the tiers of a call run in order. A search request is issued, and
\* Tier 2 is entered at all, only once Tier 1 has ended with the candidate
\* absent or unreachable, and never while a HEAD request is pending; a static
\* result for a non-empty category is returned only when Tier 1 ended so and
\* Tier 2 was skipped for lack of a key or ended without a location; a
\* reachable candidate is returned at once, with no search.
C21_TiersInOrder ==
  /\ [](\A i \in Slots :
          /\ (calls[i].searches >= 1 \/ calls[i].got # "none"
              \/ calls[i].pc \in {"search", "json", "giphy"})
               => calls[i].tier1 \in {"absent", "unreachable"}
          /\ (/\ Done(i) /\ calls[i].result.type = "static"
              /\ ~IsEmptyKey(calls[i].weatherKey))
               => /\ calls[i].tier1 \in {"absent", "unreachable"}
                  /\ IF HasApiKey(calls[i])
                       THEN calls[i].got \in NoLocation
                       ELSE calls[i].got = "nokey" /\ calls[i].searches = 0
          /\ calls[i].tier1 = "reachable"
               => /\ Done(i)
                  /\ calls[i].result.type = "curated"
                  /\ calls[i].result.url = Preferred(calls[i])
                  /\ calls[i].searches = 0 /\ calls[i].got = "none")
  /\ [][\A i \in Slots :
          calls'[i].searches > calls[i].searches
          => /\ calls[i].pc \in {"idle", "avail"}
             /\ calls'[i].pc = "search"
             /\ calls'[i].tier1 \in {"absent", "unreachable"}
       ]_vars

C21_Witness ==
  \E i, j \in Slots :
    /\ Done(i) /\ Done(j)
    /\ calls[i].tier1 = "unreachable" /\ calls[i].heads = 1
    /\ calls[i].searches = 1 /\ calls[i].got = "empty"
    /\ calls[i].result.type = "static"
    /\ calls[j].tier1 = "reachable" /\ calls[j].result.type = "curated"

\* C22: the external-lookup cache is keyed by the category alone. After a call
\* whose search for a category returned an item with location L (cached), a
\* later call for the category with the other preferVideo that reaches Tier 2
\* (with a key, its curated tier failing), made with no clearBackgroundCache
\* in between and no other search result written for the category, returns
\* {api, L} from the cache and issues no search request.
C22_KeyedByCategory ==
  \A i, j \in Slots :
    (/\ Done(i) /\ Done(j) /\ Follows(i, j)
     /\ calls[i].weatherKey = calls[j].weatherKey
     /\ calls[i].preferVideo # calls[j].preferVideo
     /\ calls[i].got = "item"
     /\ HasApiKey(calls[j])
     /\ calls[j].tier1 \in {"absent", "unreachable"}
     /\ calls[i].weatherKey \notin conflicts)
    => /\ calls[j].result.type = "api"
       /\ calls[j].result.url = calls[i].location
       /\ calls[j].result.url = calls[i].result.url
       /\ calls[j].got = "hit"
       /\ calls[j].searches = 0

C22_Witness ==
  \E i, j \in Slots :
    /\ Done(i) /\ Done(j) /\ Follows(i, j)
    /\ calls[i].weatherKey = calls[j].weatherKey
    /\ calls[i].preferVideo /\ ~calls[j].preferVideo
    /\ calls[i].got = "item" /\ calls[i].searches = 1
    /\ calls[i].result = Descriptor(GiphyMp4, "api", "video")
    /\ calls[j].searches = 0
    /\ calls[j].result = Descriptor(GiphyMp4, "api", "gif")

\* The step is a clearBackgroundCache that call i can tell happened.
ClearStep(i) ==
  \/ calls'[i].cleared # calls[i].cleared
  \/ apiFallbackCache # EmptyCache /\ apiFallbackCache' = EmptyCache
  \/ assetAvailabilityCache # EmptyCache /\ assetAvailabilityCache' = EmptyCache

\* In the step another call than i starts, or resumes after an await.
OtherCallRuns(i) ==
  \E j \in Slots \ {i} :
    /\ calls[j].pc \in {"idle", "avail", "giphy"}
    /\ calls'[j].pc # calls[j].pc

\* C23 (as claimed): a pending call is interleaved with a clearBackgroundCache
\* or with the code of another call only while its HEAD request or its search
\* request is in flight; so the search response is received, the location
\* extracted and the cache entry written with nothing in between.
C23_OnlyNetworkSuspensions ==
  [][\A i \in Slots :
       (/\ Pending(i) /\ ~Steps(i)
        /\ ClearStep(i) \/ OtherCallRuns(i))
       => calls[i].pc \in {"head", "search"}
    ]_vars

\* C23 (amended): a call runs uninterrupted from one await to the next. The
\* cache look-up and what follows it are one step: a HEAD or search request is
\* issued in a state where the cache holds no entry for its key, and a hit
\* takes the entry of that state. The completion of the HEAD request and the
\* storing of its verdict are one step. Once the body of the search response
\* is read, extracting the location and writing the cache entry are one step.
C23_AwaitToAwait ==
  [][\A i \in Slots :
       /\ (calls[i].pc # "head" /\ calls'[i].pc = "head")
            => /\ calls'[i].probeUrl \notin DOMAIN assetAvailabilityCache
               /\ assetAvailabilityCache' = assetAvailabilityCache
       /\ (calls[i].pc = "idle" /\ calls'[i].pc = "avail")
            => /\ Preferred(calls'[i]) \in DOMAIN assetAvailabilityCache
               /\ calls'[i].isAvailable =
                    assetAvailabilityCache[Preferred(calls'[i])]
       /\ (calls[i].pc # "search" /\ calls'[i].pc = "search")
            => /\ calls'[i].weatherKey \notin DOMAIN apiFallbackCache
               /\ apiFallbackCache' = apiFallbackCache
       /\ (calls[i].pc \in {"idle", "avail"} /\ calls'[i].pc = "giphy")
            => /\ calls'[i].weatherKey \in DOMAIN apiFallbackCache
               /\ calls'[i].giphyUrl = apiFallbackCache[calls'[i].weatherKey]
       /\ (calls[i].pc = "head" /\ Steps(i))
            => /\ calls'[i].pc = "avail"
               /\ calls[i].probeUrl \in DOMAIN assetAvailabilityCache'
               /\ assetAvailabilityCache'[calls[i].probeUrl]
                    = calls'[i].isAvailable
       /\ (calls[i].pc = "json" /\ Steps(i))
            => /\ calls'[i].pc = "giphy"
               /\ calls'[i].got = "item"
                    => /\ calls[i].weatherKey \in DOMAIN apiFallbackCache'
                       /\ apiFallbackCache'[calls[i].weatherKey]
                            = calls'[i].location
                       /\ calls'[i].giphyUrl = calls'[i].location
    ]_vars

\* A call without a curated candidate whose search found an item and wrote it
\* to the cache after a clearBackgroundCache that ran while the call was
\* pending.
C23_Witness ==
  \E i \in Slots :
    /\ calls[i].pc = "giphy" /\ calls[i].got = "item"
    /\ calls[i].tier1 = "absent" /\ calls[i].heads = 0
    /\ calls[i].cleared = "pending"
    /\ apiFallbackCache = MapSet(EmptyCache, calls[i].weatherKey, GiphyGif)

\* The step writes cache entry k: adds it or replaces its value.
Writes(cache, cacheAfter, k) ==
  k \in DOMAIN cacheAfter /\ (k \in DOMAIN cache => cacheAfter[k] # cache[k])

\* C24 (as claimed): whatever the interleaving of calls and cache clears, a
\* probe-cache entry is written for location u only in the step in which a
\* HEAD request for u completes, and is the boolean verdict of that request;
\* an external-lookup entry is written for category c only in the step in
\* which the body of a successful search for c is read, and is the location
\* its first item carried.
C24_CacheProvenance ==
  [][/\ \A u \in DOMAIN assetAvailabilityCache' :
          Writes(assetAvailabilityCache, assetAvailabilityCache', u)
          => /\ assetAvailabilityCache'[u] \in BOOLEAN
             /\ \E i \in Slots :
                  /\ calls[i].pc = "head" /\ calls[i].probeUrl = u
                  /\ calls'[i].pc = "avail"
                  /\ calls'[i].isAvailable = assetAvailabilityCache'[u]
     /\ \A c \in DOMAIN apiFallbackCache' :
          Writes(apiFallbackCache, apiFallbackCache', c)
          => \E i \in Slots :
               /\ calls[i].pc = "json" /\ calls[i].weatherKey = c
               /\ calls'[i].pc = "giphy"
               /\ calls'[i].got \in {"item", "nonstring"}
               /\ calls'[i].location = apiFallbackCache'[c]
    ]_vars

\* C25 (as claimed): between two cache clears the value stored under a cache
\* key never changes: every write to a location of the probe cache or to a
\* category of the external-lookup cache that holds a value writes that value.
C25_WriteOnce ==
  [][/\ \A u \in DOMAIN assetAvailabilityCache \cap DOMAIN assetAvailabilityCache' :
          assetAvailabilityCache'[u] = assetAvailabilityCache[u]
     /\ \A c \in DOMAIN apiFallbackCache \cap DOMAIN apiFallbackCache' :
          apiFallbackCache'[c] = apiFallbackCache[c]
    ]_vars

\* Ways a search can fail that the service does not remember.
FailedSearch == {"neterr", "notok", "empty"}

\* C26: a failed search is not memoized. When the search of a call for a
\* category ended in a network error, a non-success status or an empty list,
\* the next call for the category that reaches Tier 2 with a key (no other
\* call made) issues a search request of its own, and returns the location
\* that search finds with type api.
C26_FailureNotMemoized ==
  \A i, j \in Slots :
    (/\ runs = 2 /\ Done(i) /\ i \in calls[j].prior
     /\ calls[i].weatherKey = calls[j].weatherKey
     /\ calls[i].got \in FailedSearch
     /\ HasApiKey(calls[j])
     /\ calls[j].tier1 \in {"absent", "unreachable"})
    => /\ calls[i].weatherKey \notin DOMAIN apiFallbackCache
         \/ calls[j].pc \in {"giphy", "done"}
       /\ calls[j].searches = 1
       /\ calls[j].got # "hit"
       /\ (Done(j) /\ calls[j].got = "item")
            => /\ calls[j].result.type = "api"
               /\ calls[j].result.url = calls[j].location

C26_Witness ==
  \E i, j \in Slots :
    /\ runs = 2 /\ Done(i) /\ Done(j) /\ i \in calls[j].prior
    /\ calls[i].weatherKey = calls[j].weatherKey
    /\ calls[i].got = "notok" /\ calls[i].result.type = "static"
    /\ calls[i].cleared = "no"
    /\ calls[j].searches = 1 /\ calls[j].got = "item"
    /\ calls[j].result = Descriptor(GiphyGif, "api", "gif")

\* C27 (as claimed): a response to a request issued before a
\* clearBackgroundCache writes nothing to the caches after it. For the only
\* call made so far, pending across a cache clear: its HEAD request is its
\* first request, so once the caches were cleared under it the probe cache
\* stays empty; without a curated candidate its search request is its first
\* request, and the external-lookup cache stays empty.
C27_NoStaleRepopulation ==
  \A i \in Slots :
    (runs = 1 /\ calls[i].cleared = "pending")
    => /\ (calls[i].heads = 1 /\ calls[i].searches = 0)
            => assetAvailabilityCache = EmptyCache
       /\ calls[i].tier1 = "absent" => apiFallbackCache = EmptyCache

\* The locations a resolution for category k can yield: its curated
\* candidates, a location found by the search, its static fallback.
LocationsFor(k) ==
  (IF HasKey(CURATED_ASSETS, k)
     THEN {CURATED_ASSETS[k[2]].gif, CURATED_ASSETS[k[2]].video,
           CURATED_ASSETS[k[2]].image}
     ELSE {})
  \cup {GiphyGif, GiphyMp4, Num42}
  \cup {getStaticFallback(k)}

\* C28 (as claimed): once every getWeatherBackground call the component made
\* has settled and its callback has run, the descriptor the component holds
\* for a non-empty category is one resolved for that category, whatever the
\* order of the category changes and of the completions.
C28_NoStaleResolution ==
  (/\ adapter.mounted /\ ~adapter.crashed
   /\ ~IsEmptyKey(adapter.weatherKey)
   /\ \A i \in Slots : calls[i].pc = "idle")
  => adapter.backgroundData.url \in LocationsFor(adapter.weatherKey)

\* C29 (as claimed): when the component shows the static fallback because the
\* media of its category failed to load (useStaticFallback set, no error) and
\* its category changes to another non-empty one, the effect resets the
\* static-fallback mode, so that the media resolved for the new category is
\* rendered.
C29_FallbackModeReset ==
  [][(/\ adapter.mounted /\ ~adapter.crashed
      /\ adapter.useStaticFallback /\ ~adapter.error
      /\ ~IsEmptyKey(adapter.weatherKey)
      /\ ~IsEmptyKey(adapter'.weatherKey)
      /\ adapter'.weatherKey # adapter.weatherKey
      /\ ~adapter'.crashed)
     => /\ ~adapter'.useStaticFallback
        /\ Settled(adapter') => MediaMounted(adapter')
    ]_vars

\* C30 (as claimed): in every descriptor of origin api the url and the format
\* agree: with format gif the url carries no video-file signature, and a call
\* made without preferVideo never returns a url that carries one.
C30_LocationMatchesFormat ==
  \A i \in Slots :
    (Done(i) /\ calls[i].result.type = "api")
    => /\ calls[i].result.format = "gif"
            => ~VideoSignature(calls[i].result.url)
       /\ ~calls[i].preferVideo => ~VideoSignature(calls[i].result.url)

\* Call i returns in the step.
Returns(i) == calls[i].pc # "done" /\ calls'[i].pc = "done"

\* The candidates of the catalog entry of a category.
Candidates(weatherKey) ==
  IF HasKey(CURATED_ASSETS, weatherKey)
    THEN {CURATED_ASSETS[weatherKey[2]].gif, CURATED_ASSETS[weatherKey[2]].video,
          CURATED_ASSETS[weatherKey[2]].image}
    ELSE {}

\* The static part of C31: a descriptor of type static has format image and
\* the static fallback of the call's category (of neutral for an empty one).
StaticWellFormed(c, d) ==
  /\ d.format = "image"
  /\ d.url = getStaticFallback(IF c.weatherKey \in EmptyKeys
                                 THEN Str(<<"neutral">>) ELSE c.weatherKey)

\* The curated part of C31: a descriptor of type curated carries a candidate
\* of the category's catalog entry, the one the call probed, and the verdict
\* the call saw for it was reachable.
CuratedWellFormed(c, d) ==
  /\ d.url \in Candidates(c.weatherKey)
  /\ d.url = c.probeUrl
  /\ c.isAvailable

\* C31 (as claimed): whenever a call returns a descriptor, it is well-formed
\* for its type: static and curated as above; for type api the call had an
\* API key and the url is the entry the external-lookup cache holds for the
\* category when the call returns.
C31_WellFormed ==
  [][\A i \in Slots :
       (Returns(i) /\ calls'[i].result # Rejected)
       => LET d == calls'[i].result
          IN /\ d.type \in {"static", "curated", "api"}
             /\ d.type = "static" => StaticWellFormed(calls'[i], d)
             /\ d.type = "curated" => CuratedWellFormed(calls[i], d)
             /\ d.type = "api"
                  => /\ HasApiKey(calls'[i])
                     /\ calls'[i].weatherKey \in DOMAIN apiFallbackCache'
                     /\ apiFallbackCache'[calls'[i].weatherKey] = d.url
    ]_vars

\* C31 (amended): static and curated as claimed; for type api the call had an
\* API key and the url is what fetchGiphyFallback handed it, which was the
\* entry of the external-lookup cache for the category in the step in which
\* the call read it (a hit) or wrote it (a found item).
C31_WellFormedAtAccess ==
  [][\A i \in Slots :
       /\ (Returns(i) /\ calls'[i].result # Rejected)
          => LET d == calls'[i].result
             IN /\ d.type \in {"static", "curated", "api"}
                /\ d.type = "static" => StaticWellFormed(calls'[i], d)
                /\ d.type = "curated" => CuratedWellFormed(calls[i], d)
                /\ d.type = "api"
                     => /\ HasApiKey(calls'[i])
                        /\ calls[i].pc = "giphy"
                        /\ d.url = calls[i].giphyUrl
       /\ (calls[i].pc # "giphy" /\ calls'[i].pc = "giphy"
           /\ Truthy(calls'[i].giphyUrl))
          => /\ calls'[i].weatherKey \in DOMAIN apiFallbackCache'
             /\ apiFallbackCache'[calls'[i].weatherKey] = calls'[i].giphyUrl
    ]_vars

C31_Witness ==
  \E i, j \in Slots :
    /\ Done(i) /\ Done(j)
    /\ calls[i].result = Descriptor(GiphyGif, "api", "gif")
    /\ calls[i].cleared = "pending"
    /\ calls[i].weatherKey \notin DOMAIN apiFallbackCache
    /\ calls[j].weatherKey = Str(<<"rain">>)
    /\ calls[j].tier1 = "unreachable"
    /\ calls[j].result =
         Descriptor(STATIC_FALLBACK_IMAGES.rain, "static", "image")

\* The categories the classification yields over the provider data.
Produced ==
  {ambience(d).key[2] : d \in {e \in ProviderInputs : ambience(e).key # Thrown}}

\* C32 (as claimed): the classification yields, for all provider data
\* (missing fields included), a category that has a catalog entry, and never
\* fails; and every weather type the README lists as supported is yielded
\* for some provider data.
C32_ClassificationTotalAndOnto ==
  probe.fn = "ambience"
  => /\ probe.out.key # Thrown
     /\ HasKey(CURATED_ASSETS, probe.out.key)
     /\ SupportedTypes \subseteq Produced

====
